---- MODULE Spec2Model ----
(***************************************************************************)
(* A model of the quickquiz ingestion pipeline:                            *)
(*   - IngestionService.ingest_document and the database session it runs   *)
(*     in (services/ingestor.py, core/database.py, models/database.py);    *)
(*   - URLExtractor.extract_content, the retrying fetch                    *)
(*     (utils/url_extractor.py);                                           *)
(*   - EmbeddingService.generate_embeddings_batch (services/embeddings.py);*)
(*   - TextProcessor's chunking (utils/text_processor.py);                 *)
(*   - PDFParser.extract_from_bytes (utils/pdf_parser.py).                 *)
(* Each part has its own specification over its own variables; the         *)
(* variables of the other parts stay at their idle values.                 *)
(***************************************************************************)
EXTENDS Integers, Sequences, FiniteSets, TLC

VARIABLES
    \* ---- the database (PostgreSQL behind SQLAlchemy) -------------------
    committedDocs,    \* rows of table documents that are committed
    committedChunks,  \* rows of table chunks that are committed
    nextId,           \* the next fresh primary key (uuid4)
    \* ---- ingest_document calls, one per database session ---------------
    pc,               \* where each call stands (the await it is suspended at)
    frame,            \* the locals of each call
    session,          \* each AsyncSession: pending objects and open transaction
    obs,              \* what each call did to its collaborators (observation)
    started,          \* number of calls started so far
    aborted,          \* ids of documents whose call ended by raising or cancellation
    universe,         \* the inputs the calls of this behaviour draw from
    \* ---- URLExtractor.extract_content -----------------------------------
    fetch,
    \* ---- EmbeddingService.generate_embeddings_batch ---------------------
    embed,
    \* ---- TextProcessor: one call of a chunking or text utility method ---
    chunker,
    \* ---- PDFParser.extract_from_bytes: one call and its temporary file --
    pdf

ingestVars == <<committedDocs, committedChunks, nextId, pc, frame, session, obs,
                started, aborted, universe>>
vars == <<ingestVars, fetch, embed, chunker, pdf>>

(***************************************************************************)
(* Bounds of the model and constants of the program.                       *)
(***************************************************************************)
NumSessions == 2
MaxCalls == 2
MaxChunks == 21

BatchSize == 10
MinContentLength == 50

Sessions == 1..NumSessions

Min(a, b) == IF a < b THEN a ELSE b
Max(a, b) == IF a > b THEN a ELSE b

(***************************************************************************)
(* Strings are sequences of one-character strings.                         *)
(***************************************************************************)
IsSpace(ch) == ch \in {" ", "\n", "\t"}

RECURSIVE LStrip(_)
LStrip(s) == IF s # <<>> /\ IsSpace(Head(s)) THEN LStrip(Tail(s)) ELSE s

RECURSIVE RStrip(_)
RStrip(s) ==
    IF s # <<>> /\ IsSpace(s[Len(s)]) THEN RStrip(SubSeq(s, 1, Len(s) - 1)) ELSE s

\* str.strip()
Strip(s) == RStrip(LStrip(s))

\* n copies of the character ch
Rep(ch, n) == [k \in 1..n |-> ch]

None == <<>>
NoId == 0

(***************************************************************************)
(* PART 1.  ingest_document and its database session                       *)
(***************************************************************************)

\* A content is what extraction yields: raw is len(content), slen is
\* len(content.strip()), n the number of chunks TextProcessor.chunk_text
\* makes of it.  doc names the text, so two contents are the same text
\* exactly when they are the same record.
NoContent    == [doc |-> "None",  raw |-> 0, slen |-> 0, n |-> 0]
EmptyContent == [doc |-> "empty", raw |-> 0, slen |-> 0, n |-> 0]
BlankContent == [doc |-> "blank", raw |-> MinContentLength, slen |-> 0, n |-> 0]
ShortContent == [doc |-> "short", raw |-> MinContentLength + 1,
                 slen |-> MinContentLength - 1, n |-> 1]
LongContent(k) == [doc |-> "long", raw |-> MinContentLength,
                   slen |-> MinContentLength, n |-> k]
LongContents == {LongContent(k) : k \in 0..MaxChunks}
Contents == {EmptyContent, BlankContent, ShortContent} \cup LongContents
\* the contents of the concurrent behaviours: no chunk, one chunk, and the
\* least number of chunks that needs a second sub-batch
FewContents == {EmptyContent, BlankContent, ShortContent,
                LongContent(0), LongContent(1), LongContent(BatchSize + 1)}

\* A metadata mapping (dict) is the set of its <<key, value>> pairs.  None
\* and {} are both the empty set: the code tests metadata by truth value
\* only and stores "metadata or {}".
NoMetadata == {}
Keys(d) == {kv[1] : kv \in d}

\* metadata a caller supplies with a URL source
CallerMetadata == {<<"title", "caller title">>, <<"tag", "caller tag">>}

\* What URLExtractor.extract_metadata returns: {} for a status other than
\* 200, {"url": url} when reading the page fails, or the fields of the page
\* (a field the page lacks is None) and the url.
ExtractedMetadata ==
    {{},
     {<<"url", "source url">>},
     {<<"title", "page title">>, <<"url", "source url">>},
     {<<"title", "None">>, <<"url", "source url">>}}
MetadataOutcomes ==
    {[raised |-> TRUE, value |-> {}]}
    \cup {[raised |-> FALSE, value |-> m] : m \in ExtractedMetadata}
NoMetadataOutcome == [raised |-> FALSE, value |-> {}]

\* The inputs of a behaviour: the contents its calls are made of or fetch,
\* the metadata callers supply with a URL source, and the outcomes of
\* extract_metadata.
Universe(contents, metadata, extracted) ==
    [contents |-> contents, metadata |-> metadata, extracted |-> extracted]

\* DocumentCreate: source_type, source_url (absent, not acceptable to
\* URLExtractor.is_valid_url, or acceptable), content and metadata.  Only a
\* URL source reads its metadata before storing it.
Requests ==
    {[source_type |-> "text", source_url |-> "none", content |-> c,
      metadata |-> NoMetadata] : c \in universe.contents \cup {NoContent}}
    \cup {[source_type |-> "pdf", source_url |-> u, content |-> NoContent,
           metadata |-> NoMetadata] : u \in {"none", "valid"}}
    \cup {[source_type |-> "pdf", source_url |-> "none", content |-> c,
           metadata |-> NoMetadata] : c \in {LongContent(1)}}
    \cup {[source_type |-> "url", source_url |-> u, content |-> NoContent,
           metadata |-> m] :
              u \in {"none", "invalid", "valid"}, m \in universe.metadata}
NoRequest == [source_type |-> "none", source_url |-> "none", content |-> NoContent,
              metadata |-> NoMetadata]

NoError == [kind |-> "none", class |-> "none"]
DIE(kind) == [kind |-> kind, class |-> "DocumentIngestionError"]
Exc(kind) == [kind |-> kind, class |-> "Exception"]

EmptySession == [newDocs |-> {}, newChunks |-> {}, txDocs |-> {}, txChunks |-> {}]
\* error is the exception raised inside the try block, outcome the exception
\* that leaves ingest_document; metadata is document_data.metadata as it
\* stands, extracted what extract_metadata returned
NewFrame == [request |-> NoRequest, content |-> NoContent, content_hash |-> None,
             document_id |-> NoId, i |-> 0, result |-> NoId, error |-> NoError,
             outcome |-> NoError, metadata |-> NoMetadata,
             extracted |-> NoMetadataOutcome]
\* http is the aiohttp session of the call's URLExtractor ("none" before it
\* is opened), downloads the number of requests PDFParser.extract_from_url
\* sent, commits the number of times ingest_document awaited db.commit(),
\* extractor the class of the exception the PDF extractor raised
NewObs == [calls |-> {}, embedRequests |-> 0, lookup |-> "none",
           dupAtLookup |-> FALSE, cancelledAt |-> "none", teardown |-> {},
           http |-> "none", downloads |-> 0, commits |-> 0, extractor |-> "none"]

\* not content or len(content.strip()) < 50
TooShortUnstripped(c) == c.raw = 0 \/ c.raw < MinContentLength
TooShort(c) == c.raw = 0 \/ c.slen < MinContentLength

\* hashlib.sha256(content.encode()).hexdigest(): a digest of the whole
\* content, equal for equal contents and (collision resistance) only those.
create_content_hash(c) == <<"sha256", c.doc, c.raw, c.slen, c.n>>

\* TextProcessor.chunk_text(content): the chunks of a content, in the
\* chunker's order.  Chunk k (1-based) is the text of k letters, so that
\* the chunks of one content are pairwise different and never blank.
create_chunks(c) == [k \in 1..c.n |-> Rep("a", k)]

\* The embedding provider's vector for one text.
Vector(text) == <<"vec", text>>

(***************************************************************************)
(* EmbeddingService.generate_embeddings_batch                             *)
(***************************************************************************)
\* not text.strip()
IsBlank(text) == Strip(text) = <<>>

\* [text for text in texts if text.strip()]
NonEmptyTexts(texts) == SelectSeq(texts, LAMBDA t : ~IsBlank(t))

\* embedding_idx after one text of the loop that maps the vectors back
EmbeddingIdxAlwaysAdvanced(embedding_idx, blank) == embedding_idx + 1
EmbeddingIdxAfter(embedding_idx, blank) ==
    IF blank THEN embedding_idx ELSE embedding_idx + 1

\* The loop "for text in texts": result.append(embeddings[embedding_idx]) or
\* result.append(None).  embedding_idx is 0-based as in the code; an index
\* past the end of embeddings is Python's IndexError (ok = FALSE).
RECURSIVE MapBack(_, _, _)
MapBack(texts, embeddings, embedding_idx) ==
    IF texts = <<>> THEN [ok |-> TRUE, value |-> <<>>]
    ELSE LET blank == IsBlank(Head(texts))
             rest  == MapBack(Tail(texts), embeddings,
                              EmbeddingIdxAfter(embedding_idx, blank))
         IN  IF blank
             THEN [ok |-> rest.ok, value |-> <<None>> \o rest.value]
             ELSE IF embedding_idx >= Len(embeddings)
                  THEN [ok |-> FALSE, value |-> <<>>]
                  ELSE [ok |-> rest.ok,
                        value |-> <<embeddings[embedding_idx + 1]>> \o rest.value]

\* generate_embeddings_batch(texts) when the provider answers `response`:
\* response.ok = FALSE is a failed request, response.data the vectors of
\* response.data in the provider's order.  requested tells whether the
\* provider was called at all; raised is QuickQuizException.
GenerateEmbeddingsBatch(texts, response) ==
    IF NonEmptyTexts(texts) = <<>>
    THEN [raised |-> FALSE, requested |-> FALSE,
          value |-> [k \in 1..Len(texts) |-> None]]
    ELSE IF ~response.ok
    THEN [raised |-> TRUE, requested |-> TRUE, value |-> <<>>]
    ELSE LET r == MapBack(texts, response.data, 0)
         IN  [raised |-> ~r.ok, requested |-> TRUE,
              value |-> IF r.ok THEN r.value ELSE <<>>]

\* The provider's answer to a request that succeeds: one vector per text
\* submitted, in the order submitted.
ProviderVectors(texts) == [k \in 1..Len(texts) |-> Vector(texts[k])]

(***************************************************************************)
(* The database: the unique constraint on documents.content_hash and the   *)
(* visibility of rows (READ COMMITTED: committed rows and the session's    *)
(* own flushed rows).                                                      *)
(***************************************************************************)
\* Column(String(64), nullable=False, unique=True): an INSERT of a row whose
\* content_hash a committed row already has is an IntegrityError.
NoUniqueConstraint(h) == FALSE
UniqueViolation(h) == \E d \in committedDocs : d.content_hash = h

\* While another open transaction holds an uncommitted row with the same
\* content_hash, the INSERT waits for that transaction to end.
WaitsForOther(p, h) ==
    \E q \in Sessions \ {p} : \E d \in session[q].txDocs : d.content_hash = h

\* select(Document).where(Document.content_hash == content_hash), then
\* scalar_one_or_none().  ok = FALSE is a query that raised; more than one
\* row raises MultipleResultsFound; both end in "return None" (NoId).
FindNothing(p, h, ok) == NoId
find_existing_document(p, h, ok) ==
    LET hits == {d \in committedDocs \cup session[p].txDocs : d.content_hash = h}
    IN  IF ok /\ Cardinality(hits) = 1
        THEN (CHOOSE d \in hits : TRUE).id
        ELSE NoId

(***************************************************************************)
(* ingest_document, one action per await and the code up to the next await *)
(***************************************************************************)
\* an exception raised inside the try block: both handlers begin with
\* "await db.rollback()"
RaisedAtOnce(f, err) ==
    [pc |-> "raised", frame |-> [f EXCEPT !.error = err, !.outcome = err]]
Raised(f, err) == [pc |-> "rollback", frame |-> [f EXCEPT !.error = err]]

\* lines 45-55, once _extract_content has returned content c
AfterExtract(f, c) ==
    IF TooShort(c)
    THEN Raised([f EXCEPT !.content = c], DIE("too_short"))
    ELSE [pc |-> "lookup",
          frame |-> [f EXCEPT !.content = c,
                              !.content_hash = create_content_hash(c)]]

\* _extract_content up to its first await
ExtractBegin(f, req) ==
    CASE req.source_type = "text" ->
            IF req.content.raw = 0
            THEN Raised(f, DIE("content_required"))
            ELSE AfterExtract(f, req.content)
      [] req.source_type = "pdf" ->
            IF req.source_url = "none"
            THEN Raised(f, DIE("url_required"))
            ELSE [pc |-> "pdf_fetch", frame |-> f]
      [] req.source_type = "url" ->
            IF req.source_url = "none"
            THEN Raised(f, DIE("url_required"))
            ELSE IF req.source_url = "invalid"
            THEN Raised(f, DIE("invalid_url"))
            ELSE [pc |-> "url_fetch", frame |-> f]

\* URLExtractor.__aenter__: self.session = aiohttp.ClientSession(...)
aenter(http) == "open"

\* URLExtractor.__aexit__(exc_type, exc_val, exc_tb): "if self.session: await
\* self.session.close()", whatever the exception that leaves the block
AExitUnlessCancelled(http, exc_type) ==
    IF http = "open" /\ exc_type # "CancelledError" THEN "closed" ELSE http
aexit(http, exc_type) == IF http = "open" THEN "closed" ELSE http

\* _extract_url_content up to its first await: "async with URLExtractor()",
\* which an unacceptable URL leaves at once by raising
HttpAfterBegin(req) ==
    IF req.source_type = "url" /\ req.source_url # "none"
    THEN IF req.source_url = "invalid"
         THEN aexit(aenter("none"), "DocumentIngestionError")
         ELSE aenter("none")
    ELSE "none"

\* ingest_document is called with a fresh session (get_db)
Start(p) ==
    /\ pc[p] \in {"idle", "closed"}
    /\ started < MaxCalls
    /\ \E req \in Requests :
         LET nxt == ExtractBegin([NewFrame EXCEPT !.request = req,
                                                 !.metadata = req.metadata], req)
         IN  /\ pc' = [pc EXCEPT ![p] = nxt.pc]
             /\ frame' = [frame EXCEPT ![p] = nxt.frame]
             /\ obs' = [obs EXCEPT ![p] = [NewObs EXCEPT !.http = HttpAfterBegin(req)]]
    /\ session' = [session EXCEPT ![p] = EmptySession]
    /\ started' = started + 1
    /\ UNCHANGED <<committedDocs, committedChunks, nextId, aborted, universe>>
    /\ UNCHANGED <<fetch, embed, chunker, pdf>>

\* How PDFParser.extract_from_url fails: the request times out or the
\* connection fails, the status is not 200, or no page of the PDF has text.
\* Each is raised as DocumentIngestionError after the one request it sent.
PdfDownloadTransient == {"pdf_timeout", "pdf_http_503"}
PdfFailures == PdfDownloadTransient \cup {"pdf_no_text"}

\* the handlers of _extract_content: a DocumentIngestionError is raised
\* again as it is, any other exception leaves as DocumentIngestionError
\* ("Failed to extract content: ...")
ExtractContentRaises(err) ==
    IF err.class = "DocumentIngestionError" THEN err ELSE DIE("failed_to_extract")

\* PDFParser.extract_from_url returns or raises: the download (the awaits
\* session.get and response.read), then extract_from_bytes, which renders
\* the pages without awaiting.  A PDF's text begins with a page marker, so
\* it is never empty or blank.  The last case is a pdf_parser whose
\* extract_from_url raises an exception that is no DocumentIngestionError,
\* as the one test_pdf_extraction_error puts in its place does.
PdfFetchDone(p) ==
    /\ pc[p] = "pdf_fetch"
    /\ \/ \E c \in universe.contents \ {EmptyContent, BlankContent} :
            LET nxt == AfterExtract(frame[p], c)
            IN  /\ pc' = [pc EXCEPT ![p] = nxt.pc]
                /\ frame' = [frame EXCEPT ![p] = nxt.frame]
                /\ obs' = [obs EXCEPT ![p].downloads = @ + 1]
       \/ \E kind \in PdfFailures :
            LET nxt == Raised(frame[p], ExtractContentRaises(DIE(kind)))
            IN  /\ pc' = [pc EXCEPT ![p] = nxt.pc]
                /\ frame' = [frame EXCEPT ![p] = nxt.frame]
                /\ obs' = [obs EXCEPT ![p].downloads = @ + 1,
                                      ![p].extractor = "DocumentIngestionError"]
       \/ LET nxt == Raised(frame[p], ExtractContentRaises(Exc("pdf_unexpected")))
           IN  /\ pc' = [pc EXCEPT ![p] = nxt.pc]
               /\ frame' = [frame EXCEPT ![p] = nxt.frame]
               /\ obs' = [obs EXCEPT ![p].extractor = "Exception"]
    /\ UNCHANGED <<committedDocs, committedChunks, nextId, session,
                   started, aborted, universe>>
    /\ UNCHANGED <<fetch, embed, chunker, pdf>>

\* URLExtractor.extract_content returns or raises (its retry loop is PART 2).
\* A returned text has at least 100 characters after stripping.
UrlFetchDone(p) ==
    /\ pc[p] = "url_fetch"
    /\ \E c \in (universe.contents \cap LongContents) \cup {NoContent} :
         IF c = NoContent
         THEN LET nxt == Raised(frame[p], DIE("url_failed"))
              IN  /\ pc' = [pc EXCEPT ![p] = nxt.pc]
                  /\ frame' = [frame EXCEPT ![p] = nxt.frame]
                  /\ obs' = [obs EXCEPT ![p].http =
                                 aexit(@, "DocumentIngestionError")]
         ELSE /\ pc' = [pc EXCEPT ![p] = "url_meta"]
              /\ frame' = [frame EXCEPT ![p].content = c]
              /\ UNCHANGED obs
    /\ UNCHANGED <<committedDocs, committedChunks, nextId, session,
                   started, aborted, universe>>
    /\ UNCHANGED <<fetch, embed, chunker, pdf>>

\* dict.update(other): the pairs of other replace those with the same key
DictUpdate(d, other) == {kv \in d : kv[1] \notin Keys(other)} \cup other

\* _extract_and_merge_metadata: document_data.metadata once extract_metadata
\* has returned or raised (every exception is swallowed)
extract_and_merge_metadata(document_metadata, outcome) ==
    IF outcome.raised THEN document_metadata
    ELSE IF outcome.value # {} /\ document_metadata # {}
    THEN DictUpdate(document_metadata, outcome.value)
    ELSE IF outcome.value # {} THEN outcome.value
    ELSE document_metadata

\* _extract_and_merge_metadata returns, "return content" leaves the "async
\* with" block, which closes the URLExtractor session, and ingest_document
\* goes on
UrlMetaDone(p) ==
    /\ pc[p] = "url_meta"
    /\ \E outcome \in universe.extracted :
         LET f == [frame[p] EXCEPT
                      !.extracted = outcome,
                      !.metadata = extract_and_merge_metadata(@, outcome)]
             nxt == AfterExtract(f, f.content)
         IN  /\ pc' = [pc EXCEPT ![p] = nxt.pc]
             /\ frame' = [frame EXCEPT ![p] = nxt.frame]
    /\ obs' = [obs EXCEPT ![p].http = aexit(@, "none")]
    /\ UNCHANGED <<committedDocs, committedChunks, nextId, session,
                   started, aborted, universe>>
    /\ UNCHANGED <<fetch, embed, chunker, pdf>>

\* await self._find_existing_document(db, content_hash) returns; then either
\* "return existing_doc" or Document(...), db.add(document)
LookupDone(p) ==
    /\ pc[p] = "lookup"
    /\ \E ok \in BOOLEAN :
         LET h == frame[p].content_hash
             existing_doc == find_existing_document(p, h, ok)
         IN  /\ obs' = [obs EXCEPT
                    ![p].calls = @ \cup
                        (IF existing_doc = NoId THEN {"lookup", "add"} ELSE {"lookup"}),
                    ![p].lookup = IF ~ok THEN "error"
                                  ELSE IF existing_doc = NoId THEN "absent"
                                  ELSE "found",
                    ![p].dupAtLookup = \E d \in committedDocs : d.content_hash = h]
             /\ IF existing_doc # NoId
                THEN /\ pc' = [pc EXCEPT ![p] = "returned"]
                     /\ frame' = [frame EXCEPT ![p].result = existing_doc]
                     /\ UNCHANGED session
                ELSE /\ pc' = [pc EXCEPT ![p] = "flush_doc"]
                     /\ session' = [session EXCEPT ![p].newDocs =
                                        @ \cup {[content_hash |-> h,
                                                 metadata |-> frame[p].metadata]}]
                     /\ UNCHANGED frame
    /\ UNCHANGED <<committedDocs, committedChunks, nextId, started, aborted, universe>>
    /\ UNCHANGED <<fetch, embed, chunker, pdf>>

\* await db.flush() of the document returns or raises; on success
\* _create_chunks runs (it never awaits) and the batch loop begins
FlushDocDone(p) ==
    /\ pc[p] = "flush_doc"
    /\ ~WaitsForOther(p, frame[p].content_hash)
    /\ obs' = [obs EXCEPT ![p].calls = @ \cup {"flush"}]
    /\ \E ok \in BOOLEAN :
         IF ~ok \/ UniqueViolation(frame[p].content_hash)
         THEN LET nxt == Raised(frame[p],
                             Exc(IF UniqueViolation(frame[p].content_hash)
                                 THEN "integrity_error" ELSE "flush_failed"))
              IN  /\ pc' = [pc EXCEPT ![p] = nxt.pc]
                  /\ frame' = [frame EXCEPT ![p] = nxt.frame]
                  /\ UNCHANGED <<session, nextId>>
         ELSE LET f == [frame[p] EXCEPT !.document_id = nextId, !.i = 0]
                  nxt == IF create_chunks(f.content) = <<>>
                         THEN Raised(f, DIE("no_chunks"))
                         ELSE [pc |-> "embed", frame |-> f]
              IN  /\ pc' = [pc EXCEPT ![p] = nxt.pc]
                  /\ frame' = [frame EXCEPT ![p] = nxt.frame]
                  /\ session' = [session EXCEPT
                         ![p].newDocs = {},
                         ![p].txDocs = @ \cup
                             {[id |-> nextId, content_hash |-> d.content_hash,
                               metadata |-> d.metadata] :
                                 d \in session[p].newDocs}]
                  /\ nextId' = nextId + 1
    /\ UNCHANGED <<committedDocs, committedChunks, started, aborted, universe>>
    /\ UNCHANGED <<fetch, embed, chunker, pdf>>

\* batch_chunks = chunks[i : i + batch_size]
BatchChunks(chunks, i) == SubSeq(chunks, i + 1, Min(i + BatchSize, Len(chunks)))

\* chunk_index = i + j
ChunkIndexInBatch(i, j) == j
ChunkIndex(i, j) == i + j

\* The DocumentChunk records of one batch: enumerate(zip(batch_chunks,
\* embeddings, strict=False)), j 0-based as in the code.
BatchRecords(document_id, i, batch_chunks, embeddings) ==
    {[document_id |-> document_id,
      chunk_index |-> ChunkIndex(i, j),
      content |-> batch_chunks[j + 1],
      embedding |-> embeddings[j + 1]] :
        j \in 0..(Min(Len(batch_chunks), Len(embeddings)) - 1)}

\* await generate_embeddings_batch(batch_chunks) returns or raises; on
\* success the chunk records of the batch are built and db.add()ed
EmbedDone(p) ==
    /\ pc[p] = "embed"
    /\ \E ok \in BOOLEAN :
         LET f == frame[p]
             batch_chunks == BatchChunks(create_chunks(f.content), f.i)
             r == GenerateEmbeddingsBatch(batch_chunks,
                      [ok |-> ok, data |-> ProviderVectors(NonEmptyTexts(batch_chunks))])
         IN  /\ obs' = [obs EXCEPT
                    ![p].embedRequests = IF r.requested THEN @ + 1 ELSE @,
                    ![p].calls = IF r.raised THEN @ ELSE @ \cup {"add"}]
             /\ IF r.raised
                THEN LET nxt == Raised(f, DIE("chunk_batch_failed"))
                     IN  /\ pc' = [pc EXCEPT ![p] = nxt.pc]
                         /\ frame' = [frame EXCEPT ![p] = nxt.frame]
                         /\ UNCHANGED session
                ELSE /\ pc' = [pc EXCEPT ![p] = "flush_batch"]
                     /\ session' = [session EXCEPT ![p].newChunks = @ \cup
                            BatchRecords(f.document_id, f.i, batch_chunks, r.value)]
                     /\ UNCHANGED frame
    /\ UNCHANGED <<committedDocs, committedChunks, nextId, started, aborted, universe>>
    /\ UNCHANGED <<fetch, embed, chunker, pdf>>

\* what "await db.flush()" of a batch does to the session on success: the
\* pending chunk rows are written inside the open transaction
FlushedSession(s) ==
    [s EXCEPT !.newChunks = {}, !.txChunks = @ \cup s.newChunks]

\* await db.flush() of a batch returns or raises; then the next batch, or
\* after the last one "await db.commit()"
FlushBatchDone(p) ==
    /\ pc[p] = "flush_batch"
    /\ obs' = [obs EXCEPT ![p].calls = @ \cup {"flush"}]
    /\ \E ok \in BOOLEAN :
         IF ~ok
         THEN LET nxt == Raised(frame[p], DIE("chunk_batch_failed"))
              IN  /\ pc' = [pc EXCEPT ![p] = nxt.pc]
                  /\ frame' = [frame EXCEPT ![p] = nxt.frame]
                  /\ UNCHANGED session
         ELSE LET i == frame[p].i + BatchSize
              IN  /\ session' = [session EXCEPT ![p] = FlushedSession(@)]
                  /\ frame' = [frame EXCEPT ![p].i = i]
                  /\ pc' = [pc EXCEPT ![p] =
                         IF i < Len(create_chunks(frame[p].content))
                         THEN "embed" ELSE "commit"]
    /\ UNCHANGED <<committedDocs, committedChunks, nextId, started, aborted, universe>>
    /\ UNCHANGED <<fetch, embed, chunker, pdf>>

\* COMMIT: the rows written in the session's transaction become committed
CommitEffect(p) ==
    /\ committedDocs' = committedDocs \cup session[p].txDocs
    /\ committedChunks' = committedChunks \cup session[p].txChunks
    /\ session' = [session EXCEPT ![p] = EmptySession]

\* await db.commit() returns ("return document") or raises
CommitDone(p) ==
    /\ pc[p] = "commit"
    /\ obs' = [obs EXCEPT ![p].calls = @ \cup {"commit"}, ![p].commits = @ + 1]
    /\ \E ok \in BOOLEAN :
         IF ok
         THEN /\ CommitEffect(p)
              /\ pc' = [pc EXCEPT ![p] = "returned"]
              /\ frame' = [frame EXCEPT ![p].result = frame[p].document_id]
         ELSE LET nxt == Raised(frame[p], Exc("commit_failed"))
              IN  /\ pc' = [pc EXCEPT ![p] = nxt.pc]
                  /\ frame' = [frame EXCEPT ![p] = nxt.frame]
                  /\ UNCHANGED <<committedDocs, committedChunks, session>>
    /\ UNCHANGED <<nextId, started, aborted, universe>>
    /\ UNCHANGED <<fetch, embed, chunker, pdf>>

\* the document of a call that ended without returning, and how it ended
Aborted(p, by) ==
    IF frame[p].document_id = NoId THEN {}
    ELSE {[id |-> frame[p].document_id, by |-> by]}

\* what "await db.rollback()" does to the session on success: pending
\* objects are expunged and the open transaction is rolled back
NotRolledBack(s) == s
RolledBack(s) == EmptySession

\* the handlers of ingest_document: "await db.rollback()" returns, then
\* "raise" (DocumentIngestionError) or "raise DocumentIngestionError(Failed
\* to ingest document)" (any other exception); or rollback itself raises
RollbackDone(p) ==
    /\ pc[p] = "rollback"
    /\ obs' = [obs EXCEPT ![p].calls = @ \cup {"rollback"}]
    /\ \E ok \in BOOLEAN :
         IF ok
         THEN /\ session' = [session EXCEPT ![p] = RolledBack(@)]
              /\ pc' = [pc EXCEPT ![p] = "raised"]
              /\ frame' = [frame EXCEPT ![p].outcome =
                     IF frame[p].error.class = "DocumentIngestionError"
                     THEN frame[p].error
                     ELSE DIE("failed_to_ingest")]
         ELSE /\ pc' = [pc EXCEPT ![p] = "raised_other"]
              /\ frame' = [frame EXCEPT ![p].outcome = Exc("rollback_failed")]
              /\ UNCHANGED session
    /\ aborted' = aborted \cup Aborted(p, "rollback")
    /\ UNCHANGED <<committedDocs, committedChunks, nextId, started, universe>>
    /\ UNCHANGED <<fetch, embed, chunker, pdf>>

\* the awaits of ingest_document: where a call can be suspended
AwaitPoints == {"pdf_fetch", "url_fetch", "url_meta", "lookup", "flush_doc",
                "embed", "flush_batch", "commit", "rollback"}

\* The task running the call is cancelled while suspended: CancelledError is
\* raised at that await.  It is a BaseException, so neither "except
\* DocumentIngestionError" nor "except Exception" handles it, and it leaves
\* ingest_document at once.  A COMMIT that was in flight may or may not have
\* taken effect.
Cancel(p) ==
    /\ pc[p] \in AwaitPoints
    /\ pc' = [pc EXCEPT ![p] = "cancelled"]
    /\ obs' = [obs EXCEPT
           ![p].cancelledAt = pc[p],
           ![p].http = IF pc[p] \in {"url_fetch", "url_meta"}
                       THEN aexit(@, "CancelledError") ELSE @]
    /\ \/ /\ aborted' = aborted \cup Aborted(p, "cancel")
          /\ UNCHANGED <<committedDocs, committedChunks, session>>
       \/ /\ pc[p] = "commit"
          /\ CommitEffect(p)
          /\ UNCHANGED aborted
    /\ UNCHANGED <<frame, nextId, started, universe>>
    /\ UNCHANGED <<fetch, embed, chunker, pdf>>

\* get_db after the route handler is done with the session: "await
\* session.commit()" when the handler returned, "await session.rollback()"
\* when it raised an Exception, and "await session.close()" in every case
\* (finally), which ends the transaction without committing it.
CloseCommits(p) == pc[p] = "returned"

Teardown(p) ==
    CASE pc[p] = "returned" -> {"commit", "close"}
      [] pc[p] \in {"raised", "raised_other"} -> {"rollback", "close"}
      [] pc[p] = "cancelled" -> {"close"}

Close(p) ==
    /\ pc[p] \in {"returned", "raised", "raised_other", "cancelled"}
    /\ pc' = [pc EXCEPT ![p] = "closed"]
    /\ obs' = [obs EXCEPT ![p].teardown = Teardown(p)]
    /\ frame' = [frame EXCEPT ![p] = NewFrame]
    /\ IF CloseCommits(p)
       THEN CommitEffect(p)
       ELSE /\ session' = [session EXCEPT ![p] = EmptySession]
            /\ UNCHANGED <<committedDocs, committedChunks>>
    /\ UNCHANGED <<nextId, started, aborted, universe>>
    /\ UNCHANGED <<fetch, embed, chunker, pdf>>

IngestInit ==
    /\ committedDocs = {}
    /\ committedChunks = {}
    /\ nextId = 1
    /\ pc = [p \in Sessions |-> "idle"]
    /\ frame = [p \in Sessions |-> NewFrame]
    /\ session = [p \in Sessions |-> EmptySession]
    /\ obs = [p \in Sessions |-> NewObs]
    /\ started = 0
    /\ aborted = {}
    /\ universe = Universe(FewContents, {NoMetadata}, {NoMetadataOutcome})

\* one call, of a content with any number of chunks up to MaxChunks
BatchInit ==
    /\ committedDocs = {}
    /\ committedChunks = {}
    /\ nextId = 1
    /\ pc = [p \in Sessions |-> "idle"]
    /\ frame = [p \in Sessions |-> NewFrame]
    /\ session = [p \in Sessions |-> EmptySession]
    /\ obs = [p \in Sessions |-> NewObs]
    /\ started = MaxCalls - 1
    /\ aborted = {}
    /\ universe = Universe(Contents, {NoMetadata}, {NoMetadataOutcome})

IngestIdle ==
    /\ committedDocs = {}
    /\ committedChunks = {}
    /\ nextId = 1
    /\ pc = <<>>
    /\ frame = <<>>
    /\ session = <<>>
    /\ obs = <<>>
    /\ started = 0
    /\ aborted = {}
    /\ universe = Universe({}, {}, {})

FetchIdle == fetch = <<>>
EmbedIdle == embed = <<>>
ChunkerIdle == chunker = <<>>
PdfIdle == pdf = <<>>

Init == IngestInit /\ FetchIdle /\ EmbedIdle /\ ChunkerIdle /\ PdfIdle

Next ==
    \E p \in Sessions :
        \/ Start(p)
        \/ PdfFetchDone(p)
        \/ UrlFetchDone(p)
        \/ UrlMetaDone(p)
        \/ LookupDone(p)
        \/ FlushDocDone(p)
        \/ EmbedDone(p)
        \/ FlushBatchDone(p)
        \/ CommitDone(p)
        \/ RollbackDone(p)
        \/ Cancel(p)
        \/ Close(p)

Spec == Init /\ [][Next]_vars

InitBatch == BatchInit /\ FetchIdle /\ EmbedIdle /\ ChunkerIdle /\ PdfIdle

SpecBatch == InitBatch /\ [][Next]_vars

\* one call; a URL source comes with or without caller metadata, and
\* extract_metadata has any of its outcomes
UrlInit ==
    /\ committedDocs = {}
    /\ committedChunks = {}
    /\ nextId = 1
    /\ pc = [p \in Sessions |-> "idle"]
    /\ frame = [p \in Sessions |-> NewFrame]
    /\ session = [p \in Sessions |-> EmptySession]
    /\ obs = [p \in Sessions |-> NewObs]
    /\ started = MaxCalls - 1
    /\ aborted = {}
    /\ universe = Universe({ShortContent, LongContent(0), LongContent(1)},
                           {NoMetadata, CallerMetadata}, MetadataOutcomes)

InitUrl == UrlInit /\ FetchIdle /\ EmbedIdle /\ ChunkerIdle /\ PdfIdle

\* The calls when no task is cancelled and every collaborator call returns
\* or raises: a suspended call is resumed in the end (the event loop runs
\* every task that is ready), and get_db closes the session of a call that
\* has ended.
Step(p) ==
    \/ PdfFetchDone(p)
    \/ UrlFetchDone(p)
    \/ UrlMetaDone(p)
    \/ LookupDone(p)
    \/ FlushDocDone(p)
    \/ EmbedDone(p)
    \/ FlushBatchDone(p)
    \/ CommitDone(p)
    \/ RollbackDone(p)
    \/ Close(p)

LiveInit ==
    /\ committedDocs = {}
    /\ committedChunks = {}
    /\ nextId = 1
    /\ pc = [p \in Sessions |-> "idle"]
    /\ frame = [p \in Sessions |-> NewFrame]
    /\ session = [p \in Sessions |-> EmptySession]
    /\ obs = [p \in Sessions |-> NewObs]
    /\ started = 0
    /\ aborted = {}
    /\ universe = Universe({ShortContent, LongContent(0), LongContent(BatchSize + 1)},
                           {NoMetadata}, {NoMetadataOutcome})

InitLive == LiveInit /\ FetchIdle /\ EmbedIdle /\ ChunkerIdle /\ PdfIdle

NextLive == \E p \in Sessions : Start(p) \/ Step(p)

SpecLive == InitLive /\ [][NextLive]_vars /\ \A p \in Sessions : WF_vars(Step(p))

SpecUrl == InitUrl /\ [][Next]_vars

(***************************************************************************)
(* Properties of ingest_document                                           *)
(***************************************************************************)
CommittedIds == {d.id : d \in committedDocs}
NothingCommittedOf(id) ==
    /\ \A d \in committedDocs : d.id # id
    /\ \A c \in committedChunks : c.document_id # id

C2_UniqueFingerprint ==
    \A d1, d2 \in committedDocs :
        d1.content_hash = d2.content_hash => d1.id = d2.id

\* a call that found nothing, because the other call had not committed yet,
\* and whose INSERT was then refused
C2_Witness ==
    \E p \in Sessions :
        /\ pc[p] = "raised"
        /\ obs[p].lookup = "absent"
        /\ ~obs[p].dupAtLookup
        /\ frame[p].error.kind = "integrity_error"
        /\ \E d \in committedDocs : d.content_hash = frame[p].content_hash

\* C3: when chunking yields no chunk, or an embedding call, a sub-batch
\* flush or the commit fails, ingest_document has called rollback by the time
\* it raises DocumentIngestionError, nothing of the call is left in the
\* session, and committed storage holds neither the document nor a chunk of
\* it, then and ever after.
FailedAfterAdd(p) ==
    frame[p].error.kind \in {"no_chunks", "chunk_batch_failed", "commit_failed"}

C3_RollbackBeforeRaise ==
    /\ \A p \in Sessions :
           (pc[p] = "raised" /\ FailedAfterAdd(p)) =>
               /\ "rollback" \in obs[p].calls
               /\ frame[p].outcome.class = "DocumentIngestionError"
               /\ frame[p].document_id # NoId
               /\ session[p] = EmptySession
               /\ NothingCommittedOf(frame[p].document_id)
    /\ \A a \in aborted : a.by = "rollback" => NothingCommittedOf(a.id)

\* the second sub-batch fails after the first one was flushed
C3_Witness ==
    \E p \in Sessions :
        /\ pc[p] = "raised"
        /\ frame[p].error.kind = "chunk_batch_failed"
        /\ frame[p].i >= BatchSize
        /\ "rollback" \in obs[p].calls

\* C4: after a committed ingestion storage holds exactly the n chunks of the
\* chunker, and the chunk with chunk_index k is chunk k of the chunker with
\* the vector computed for it.
MyChunks(p) == {c \in committedChunks : c.document_id = frame[p].document_id}

C4_ChunksInOrder ==
    \A p \in Sessions :
        (pc[p] = "returned" /\ "commit" \in obs[p].calls) =>
            LET chunks == create_chunks(frame[p].content)
            IN  /\ Cardinality(MyChunks(p)) = Len(chunks)
                /\ \A k \in 0..(Len(chunks) - 1) :
                       \E c \in MyChunks(p) :
                           /\ c.chunk_index = k
                           /\ c.content = chunks[k + 1]
                           /\ c.embedding = Vector(chunks[k + 1])

C4_Witness ==
    \E p \in Sessions :
        /\ pc[p] = "returned"
        /\ "commit" \in obs[p].calls
        /\ frame[p].content.n > BatchSize
        /\ frame[p].content.n % BatchSize # 0
        /\ Cardinality(MyChunks(p)) = frame[p].content.n

\* C9 (as amended): content of fewer than 50 characters after stripping, or
\* empty content, makes the call fail before the fingerprint is computed;
\* the call makes no lookup, add, flush or commit and requests no embedding,
\* and the one persistence call it makes is the rollback of its handler.
FailedShort(p) == frame[p].error.kind \in {"too_short", "content_required"}

C9_ShortContentFails ==
    \A p \in Sessions :
        /\ frame[p].content_hash # None =>
               frame[p].content.slen >= MinContentLength
        /\ pc[p] = "returned" => frame[p].content.slen >= MinContentLength
        /\ FailedShort(p) =>
               /\ frame[p].content_hash = None
               /\ obs[p].calls \subseteq {"rollback"}
               /\ obs[p].embedRequests = 0
               /\ session[p] = EmptySession
               /\ pc[p] \in {"raised", "raised_other"} => obs[p].calls = {"rollback"}

\* 51 characters of which 49 remain after stripping
C9_Witness ==
    \E p \in Sessions :
        /\ pc[p] = "raised"
        /\ frame[p].error.kind = "too_short"
        /\ frame[p].content = ShortContent
        /\ obs[p].calls = {"rollback"}

\* C9 as stated: no persistence call at all, rollback included
C9_Original ==
    \A p \in Sessions :
        FailedShort(p) =>
            /\ frame[p].content_hash = None
            /\ obs[p].calls = {}

\* C10 as stated: a call cancelled at a fetch, an embedding call or a flush
\* has rollback invoked on its session, by ingest_document or by get_db, and
\* nothing it added is committed.
CancelPoints == {"pdf_fetch", "url_fetch", "embed", "flush_doc", "flush_batch"}

C10_Original ==
    /\ \A p \in Sessions :
           (pc[p] = "closed" /\ obs[p].cancelledAt \in CancelPoints) =>
               "rollback" \in obs[p].calls \cup obs[p].teardown
    /\ \A a \in aborted : a.by = "cancel" => NothingCommittedOf(a.id)

\* the document rows a call has added: pending, flushed or committed
DocsOf(p) ==
    session[p].newDocs \cup session[p].txDocs
    \cup {d \in committedDocs : d.id = frame[p].document_id}

\* C13 as stated: for a URL source the metadata stored on the document keeps
\* the caller's value for every key that the caller's metadata and the
\* extractor's metadata both contain.
C13_Original ==
    \A p \in Sessions :
        (frame[p].request.source_type = "url" /\ ~frame[p].extracted.raised) =>
            \A d \in DocsOf(p) :
                \A kv \in frame[p].request.metadata :
                    kv[1] \in Keys(frame[p].extracted.value) => kv \in d.metadata

\* C14 as stated: a remote PDF whose download fails transiently (timeout,
\* connection error, 5xx) is not given up after one request: the extraction
\* fails only after further attempts.
C14_Original ==
    \A p \in Sessions :
        frame[p].error.kind \in PdfDownloadTransient => obs[p].downloads > 1

\* C15 as stated: a PDF source that comes as content with no source URL (as
\* upload_document passes it) is not failed for the missing URL.
C15_Original ==
    \A p \in Sessions :
        (/\ frame[p].request.source_type = "pdf"
         /\ frame[p].request.source_url = "none"
         /\ frame[p].request.content # NoContent) =>
            frame[p].error.kind # "url_required"

\* C16: the HTTP session that a URL ingestion opens is open only while the
\* call is inside "async with URLExtractor()", that is while it awaits
\* extract_content or extract_metadata; on every way out of the block -
\* content returned, URL rejected, retries exhausted, metadata failure,
\* cancellation - it is closed, so no call that has returned, raised or been
\* cancelled has left a session open.
C16_HttpSessionClosed ==
    \A p \in Sessions :
        /\ pc[p] \notin {"url_fetch", "url_meta"} => obs[p].http # "open"
        /\ pc[p] \in {"url_fetch", "url_meta"} => obs[p].http = "open"
        /\ (/\ pc[p] \notin {"idle", "closed", "url_fetch", "url_meta"}
            /\ frame[p].request.source_type = "url"
            /\ frame[p].request.source_url # "none") => obs[p].http = "closed"

\* a call cancelled while it awaited the fetch
C16_Witness ==
    \E p \in Sessions :
        /\ pc[p] = "cancelled"
        /\ obs[p].cancelledAt = "url_fetch"
        /\ obs[p].http = "closed"

\* where a call that has started and not ended stands
Running(p) == pc[p] \in AwaitPoints
\* ingest_document has returned or raised
Ended(p) == pc[p] \in {"returned", "raised", "raised_other"}

\* what a call has done by the time its commit is awaited
ReadyToCommit(p) ==
    LET chunks == create_chunks(frame[p].content)
    IN  /\ frame[p].document_id # NoId
        /\ "flush" \in obs[p].calls
        /\ chunks # <<>>
        /\ frame[p].i >= Len(chunks)
        /\ session[p].newDocs = {}
        /\ session[p].newChunks = {}

\* the ways a call ends
ReturnedExisting(p) ==
    /\ pc[p] = "returned"
    /\ obs[p].lookup = "found"
    /\ obs[p].calls = {"lookup"}
    /\ frame[p].document_id = NoId
    /\ frame[p].result \in CommittedIds
ReturnedNew(p) ==
    /\ pc[p] = "returned"
    /\ obs[p].commits = 1
    /\ frame[p].result = frame[p].document_id
    /\ frame[p].result \in CommittedIds
RaisedFailure(p) ==
    /\ pc[p] = "raised"
    /\ frame[p].outcome.class = "DocumentIngestionError"
RaisedByRollback(p) ==
    /\ pc[p] = "raised_other"
    /\ frame[p].outcome = Exc("rollback_failed")

C17_Safety(p) ==
    /\ obs[p].commits <= 1
    /\ pc[p] = "commit" => ReadyToCommit(p) /\ obs[p].commits = 0
    /\ pc[p] = "returned" => "rollback" \notin obs[p].calls
    /\ pc[p] \in {"raised", "raised_other"} => "rollback" \in obs[p].calls

C24_Original ==
    \A p \in Sessions : \A d \in committedDocs :
        (/\ obs[p].lookup = "absent"
         /\ ~obs[p].dupAtLookup
         /\ d.content_hash = frame[p].content_hash
         /\ d.id # frame[p].document_id
         /\ pc[p] \in {"returned", "raised"}
         /\ frame[p].error.kind \in {"none", "integrity_error"}) =>
            /\ pc[p] = "returned"
            /\ frame[p].result = d.id

\* C22 as stated: when the PDF extractor raises an exception that is not a
\* DocumentIngestionError, ingest_document reports the coordinator-level
\* failure, DocumentIngestionError "Failed to ingest document: ...", not an
\* extraction-level failure, and rollback has been invoked on the session
\* before the error reaches the caller.
C22_Original ==
    \A p \in Sessions :
        (obs[p].extractor = "Exception" /\ pc[p] = "raised") =>
            /\ frame[p].outcome = DIE("failed_to_ingest")
            /\ "rollback" \in obs[p].calls

(***************************************************************************)
(* PART 2.  URLExtractor.extract_content, the retrying fetch               *)
(***************************************************************************)
MaxRetries == 3

RECURSIVE Pow2(_)
Pow2(n) == IF n <= 0 THEN 1 ELSE 2 * Pow2(n - 1)

\* What one "session.get(url)" and the extraction of its body can meet:
\* net is how the request ends, status and ctype the response's status and
\* declared content type, primary and fallback the text that the first and
\* the second trafilatura.extract call yield ("none", or a text that is
\* "short" or "long" of the 100 characters required after cleaning).
Response(net, status, ctype, primary, fallback) ==
    [net |-> net, status |-> status, ctype |-> ctype,
     primary |-> primary, fallback |-> fallback]

Responses ==
    {Response(n, 0, "none", "none", "none") : n \in {"timeout", "client_error"}}
    \cup {Response("ok", st, "text/html", "none", "none") :
             st \in {403, 404, 410, 500, 503}}
    \cup {Response("ok", 200, ct, "none", "none") :
             ct \in {"application/pdf", "text/plain"}}
    \cup {Response("ok", 200, "text/html", pf[1], pf[2]) :
             pf \in {<<"long", "none">>, <<"short", "none">>, <<"none", "long">>,
                     <<"none", "short">>, <<"none", "none">>}}

FetchError(kind, status) == [kind |-> kind, status |-> status]
NoFetchError == FetchError("none", 0)

\* "if not extracted_text:", after the first trafilatura.extract call: the
\* second call, which favours recall, is made
FallbackAlways(extracted_text) == TRUE
FallbackRuns(extracted_text) == extracted_text = "none"

\* _extract_content_attempt(url) on response r: the text returned, or the
\* DocumentIngestionError raised; passes names the trafilatura.extract calls
\* made, used the call whose result went on to cleaning
ExtractContentAttempt(r) ==
    LET fallback == FallbackRuns(r.primary)
        extracted_text == IF fallback THEN r.fallback ELSE r.primary
        passes == IF fallback THEN <<"precision", "recall">> ELSE <<"precision">>
        used == IF fallback THEN "recall" ELSE "precision"
        fail(kind) == [ok |-> FALSE, text |-> "none", error |-> FetchError(kind, r.status),
                       passes |-> <<>>, used |-> "none"]
        failed(kind) == [ok |-> FALSE, text |-> "none",
                         error |-> FetchError(kind, r.status),
                         passes |-> passes, used |-> used]
    IN  CASE r.net = "timeout" -> fail("timeout")
          [] r.net = "client_error" -> fail("network")
          [] r.status = 404 -> fail("not_found")
          [] r.status = 403 -> fail("forbidden")
          [] r.status >= 400 -> fail("http_error")
          [] r.ctype = "application/pdf" -> fail("pdf_content")
          [] r.ctype # "text/html" -> fail("unsupported_type")
          [] extracted_text = "none" -> failed("no_content")
          [] extracted_text = "short" -> failed("too_short")
          [] OTHER -> [ok |-> TRUE, text |-> extracted_text, error |-> NoFetchError,
                       passes |-> passes, used |-> used]

\* the failures the specification calls transient: timeout, connection
\* error, 5xx; and those it calls non-transient: 404, 403, any other 4xx, a
\* declared content type that is not HTML
Transient(e) ==
    \/ e.kind \in {"timeout", "network"}
    \/ e.kind = "http_error" /\ e.status >= 500
NonTransient(e) ==
    \/ e.kind \in {"not_found", "forbidden", "pdf_content", "unsupported_type"}
    \/ e.kind = "http_error" /\ e.status < 500

\* for attempt in range(self.max_retries): the number of passes of the loop
AttemptLimit(max_retries) == max_retries

\* if attempt < self.max_retries - 1: sleep and continue; otherwise break
SleepsAfterLastAttempt(attempt, max_retries) == attempt < max_retries
MoreAttempts(attempt, max_retries) == attempt < max_retries - 1

\* "except Exception as e": the failures of an attempt that the loop handles
\* (every failure of an attempt is a DocumentIngestionError)
RetriedOnlyIfTransient(e) == Transient(e)
Retried(e) == TRUE

NoFetchResponse == Response("none", 0, "none", "none", "none")

\* last is the latest attempt: its response and what
\* _extract_content_attempt made of it
NewFetch(max_retries, url, has_session) ==
    [pc |-> "idle", max_retries |-> max_retries, url |-> url,
     has_session |-> has_session, attempt |-> 0, attempts |-> 0,
     waits |-> <<>>, history |-> <<>>, text |-> "none", error |-> "none",
     last |-> [response |-> NoFetchResponse, ok |-> FALSE, error |-> NoFetchError,
               passes |-> <<>>, used |-> "none"]]

FetchInit ==
    fetch \in {NewFetch(n, u, hs) :
                  n \in 0..MaxRetries, u \in {"valid", "invalid"}, hs \in BOOLEAN}

\* extract_content up to the first pass of the loop
FetchBegin ==
    /\ fetch.pc = "idle"
    /\ fetch' =
         IF ~fetch.has_session
         THEN [fetch EXCEPT !.pc = "raised", !.error = "no_session"]
         ELSE IF fetch.url = "invalid"
         THEN [fetch EXCEPT !.pc = "raised", !.error = "invalid_url"]
         ELSE IF 0 < AttemptLimit(fetch.max_retries)
         THEN [fetch EXCEPT !.pc = "attempt", !.attempt = 0]
         ELSE [fetch EXCEPT !.pc = "raised", !.error = "failed_after_attempts"]
    /\ UNCHANGED ingestVars
    /\ UNCHANGED <<embed, chunker, pdf>>

\* one pass of the loop: await self._extract_content_attempt(url) returns or
\* raises; a failure that is handled either starts the backoff sleep or
\* leaves the loop
FetchAttempt ==
    /\ fetch.pc = "attempt"
    /\ \E r \in Responses :
         LET a == ExtractContentAttempt(r)
             f == [fetch EXCEPT
                      !.attempts = @ + 1,
                      !.last = [response |-> r, ok |-> a.ok, error |-> a.error,
                                passes |-> a.passes, used |-> a.used]]
         IN  fetch' =
               IF a.ok
               THEN [f EXCEPT !.pc = "returned", !.text = a.text]
               ELSE LET g == [f EXCEPT !.history = Append(@, a.error)]
                    IN  IF ~Retried(a.error)
                        THEN [g EXCEPT !.pc = "raised", !.error = a.error.kind]
                        ELSE IF MoreAttempts(g.attempt, g.max_retries)
                        THEN [g EXCEPT !.pc = "sleep",
                                       !.waits = Append(@, Pow2(g.attempt))]
                        ELSE [g EXCEPT !.pc = "raised",
                                       !.error = "failed_after_attempts"]
    /\ UNCHANGED ingestVars
    /\ UNCHANGED <<embed, chunker, pdf>>

\* await asyncio.sleep(2**attempt) returns; "continue" to the next pass
FetchSleepDone ==
    /\ fetch.pc = "sleep"
    /\ fetch' =
         IF fetch.attempt + 1 < AttemptLimit(fetch.max_retries)
         THEN [fetch EXCEPT !.pc = "attempt", !.attempt = @ + 1]
         ELSE [fetch EXCEPT !.pc = "raised", !.attempt = @ + 1,
                            !.error = "failed_after_attempts"]
    /\ UNCHANGED ingestVars
    /\ UNCHANGED <<embed, chunker, pdf>>

FetchNext == FetchBegin \/ FetchAttempt \/ FetchSleepDone

InitFetch == FetchInit /\ IngestIdle /\ EmbedIdle /\ ChunkerIdle /\ PdfIdle

SpecFetch == InitFetch /\ [][FetchNext]_vars

(***************************************************************************)
(* Properties of extract_content                                           *)
(***************************************************************************)
AllTransient(history) == \A k \in 1..Len(history) : Transient(history[k])
BackoffWaits(n) == [k \in 1..n |-> Pow2(k - 1)]
\* the call reached its loop, and every attempt failed
LoopFailed == fetch.pc = "raised" /\ fetch.has_session /\ fetch.url = "valid"

\* C5 (as amended): when every fetch attempt fails transiently,
\* extract_content configured with max_retries = N makes exactly N fetch
\* attempts in total (N - 1 after the first), waiting 1, 2, 4, ... between
\* them, and then fails.
C5_AttemptsOnSustainedFailure ==
    (LoopFailed /\ AllTransient(fetch.history)) =>
        /\ fetch.attempts = fetch.max_retries
        /\ Len(fetch.history) = fetch.max_retries
        /\ fetch.waits = BackoffWaits(Max(fetch.max_retries - 1, 0))
        /\ fetch.error = "failed_after_attempts"

C5_Witness ==
    /\ LoopFailed
    /\ AllTransient(fetch.history)
    /\ fetch.max_retries = 3
    /\ fetch.attempts = 3
    /\ fetch.waits = <<1, 2>>

\* C5 as stated: N + 1 attempts in total
C5_Original ==
    (LoopFailed /\ fetch.history # <<>> /\ AllTransient(fetch.history)) =>
        fetch.attempts = fetch.max_retries + 1

ReachedExtraction ==
    /\ fetch.attempts > 0
    /\ fetch.last.response.net = "ok"
    /\ fetch.last.response.status < 400
    /\ fetch.last.response.ctype = "text/html"

MaxTexts == 3

\* the texts of a batch: empty, whitespace only, and two that are not blank
TextPool == {<<>>, <<" ">>, <<"a">>, <<" ", "b">>}
\* the vectors a provider may return
VectorPool == {Vector(<<"x">>), Vector(<<"y">>), Vector(<<"z">>)}

SeqsUpTo(S, n) == UNION {[1..k -> S] : k \in 0..n}

NoResponse == [ok |-> FALSE, data |-> <<>>]

\* what client.embeddings.create may answer: a failure, or any list of
\* vectors (a provider is not bound to return one vector per input)
ProviderResponses(texts) ==
    IF NonEmptyTexts(texts) = <<>> THEN {NoResponse}
    ELSE {NoResponse} \cup
         {[ok |-> TRUE, data |-> d] : d \in SeqsUpTo(VectorPool, Len(texts) + 1)}

NewEmbed(texts) ==
    [pc |-> "idle", texts |-> texts, response |-> NoResponse,
     requested |-> FALSE, result |-> <<>>]

EmbedInit == embed \in {NewEmbed(texts) : texts \in SeqsUpTo(TextPool, MaxTexts)}

\* generate_embeddings_batch(texts) runs to its return or its raise
GenerateEmbeddingsBatchCall ==
    /\ embed.pc = "idle"
    /\ \E response \in ProviderResponses(embed.texts) :
         LET r == GenerateEmbeddingsBatch(embed.texts, response)
         IN  embed' = [embed EXCEPT
                 !.pc = IF r.raised THEN "raised" ELSE "returned",
                 !.response = response,
                 !.requested = r.requested,
                 !.result = r.value]
    /\ UNCHANGED ingestVars
    /\ UNCHANGED <<fetch, chunker, pdf>>

EmbedNext == GenerateEmbeddingsBatchCall

InitEmbed == EmbedInit /\ IngestIdle /\ FetchIdle /\ ChunkerIdle /\ PdfIdle

SpecEmbed == InitEmbed /\ [][EmbedNext]_vars

(***************************************************************************)
(* Properties of generate_embeddings_batch                                 *)
(***************************************************************************)
\* the number of texts among the first i that are not blank
NonBlankRank(texts, i) ==
    Cardinality({k \in 1..i : Strip(texts[k]) # <<>>})

\* C7: whenever generate_embeddings_batch returns, the result is as long as
\* the input, position i is None exactly when texts[i] is blank or
\* whitespace only, and the j-th text that is not blank has the j-th vector
\* of the provider's response.
C7_VectorsInPlace ==
    embed.pc = "returned" =>
        /\ Len(embed.result) = Len(embed.texts)
        /\ \A i \in 1..Len(embed.texts) :
               IF Strip(embed.texts[i]) = <<>>
               THEN embed.result[i] = None
               ELSE /\ embed.result[i] # None
                    /\ NonBlankRank(embed.texts, i) <= Len(embed.response.data)
                    /\ embed.result[i] =
                           embed.response.data[NonBlankRank(embed.texts, i)]

\* a blank text between two texts that are not blank, and two different
\* vectors returned for them
C7_Witness ==
    /\ embed.pc = "returned"
    /\ Len(embed.texts) = 3
    /\ Strip(embed.texts[1]) # <<>>
    /\ Strip(embed.texts[2]) = <<>>
    /\ Strip(embed.texts[3]) # <<>>
    /\ embed.result[1] # embed.result[3]
    /\ embed.result[2] = None

(***************************************************************************)
(* PART 4.  TextProcessor: chunking with metadata                          *)
(***************************************************************************)
MaxSections == 3

\* _find_sentence_boundary looks back 200 and ahead 100 characters
BoundaryLookBack == 200
BoundaryLookAhead == 100

NLNL == <<"\n", "\n">>
IsPunct(ch) == ch \in {".", "!", "?"}
IsUpper(ch) == ch \in {"A", "B", "C", "D", "E"}
Abs(x) == IF x < 0 THEN 0 - x ELSE x

\* text[a:b] with 0 <= a, as Python slices it (b is clamped to len(text))
Slice(text, a, b) == SubSeq(text, a + 1, Min(b, Len(text)))

\* text.split("\n\n")
RECURSIVE SplitParagraphs(_, _, _)
SplitParagraphs(text, i, start) ==
    IF i > Len(text) THEN <<SubSeq(text, start, Len(text))>>
    ELSE IF i < Len(text) /\ text[i] = "\n" /\ text[i + 1] = "\n"
         THEN <<SubSeq(text, start, i - 1)>> \o SplitParagraphs(text, i + 2, i + 2)
         ELSE SplitParagraphs(text, i + 1, start)

\* the first position from i on that holds no punctuation (no whitespace)
RECURSIVE PunctRunEnd(_, _)
PunctRunEnd(text, i) ==
    IF i <= Len(text) /\ IsPunct(text[i]) THEN PunctRunEnd(text, i + 1) ELSE i

RECURSIVE SpaceRunEnd(_, _)
SpaceRunEnd(text, i) ==
    IF i <= Len(text) /\ IsSpace(text[i]) THEN SpaceRunEnd(text, i + 1) ELSE i

\* self.sentence_pattern.split(text), the pattern being [.!?]+\s+
RECURSIVE SentenceSplit(_, _, _)
SentenceSplit(text, i, start) ==
    IF i > Len(text) THEN <<SubSeq(text, start, Len(text))>>
    ELSE IF IsPunct(text[i])
         THEN LET j == PunctRunEnd(text, i)
                  k == SpaceRunEnd(text, j)
              IN  IF k > j
                  THEN <<SubSeq(text, start, i - 1)>> \o SentenceSplit(text, k, k)
                  ELSE SentenceSplit(text, j, start)
         ELSE SentenceSplit(text, i + 1, start)

Sentences(text) == SentenceSplit(text, 1, 1)

\* a chunk with the fields of its ChunkMetadata that the chunkers assign
Chunk(text, chunk_index, start_char, end_char) ==
    [text |-> text, chunk_index |-> chunk_index,
     start_char |-> start_char, end_char |-> end_char]

\* _identify_sections: the paragraphs that are not blank, stripped, with the
\* position the function computes for each
RECURSIVE IdentifySections(_, _)
IdentifySections(paragraphs, current_pos) ==
    IF paragraphs = <<>> THEN <<>>
    ELSE LET paragraph == Strip(Head(paragraphs))
         IN  IF paragraph = <<>>
             THEN IdentifySections(Tail(paragraphs), current_pos + 2)
             ELSE <<[text |-> paragraph, start |-> current_pos,
                     end |-> current_pos + Len(paragraph)]>>
                  \o IdentifySections(Tail(paragraphs),
                                      current_pos + Len(paragraph) + 2)

identify_sections(text) == IdentifySections(SplitParagraphs(text, 1, 1), 0)

\* _get_semantic_overlap(current_chunk, next_section)
get_semantic_overlap(current_chunk, cfg) ==
    IF Len(current_chunk) <= cfg.chunk_overlap THEN current_chunk
    ELSE LET overlap_start == Len(current_chunk) - cfg.chunk_overlap
             overlap_text == Slice(current_chunk, overlap_start, Len(current_chunk))
         IN  IF Len(Sentences(overlap_text)) > 1
             THEN LET all == Sentences(current_chunk) IN Strip(all[Len(all)])
             ELSE Strip(overlap_text)

\* chunk_index of the chunk that replaces chunks[i + 1] when chunks[i] is
\* merged into it: metadata.chunk_index, the index of chunks[i]
MergedChunkIndex(chunk, next_chunk) == chunk.chunk_index

\* _post_process_chunks: the loop over enumerate(chunks) from position k
\* (1-based) on; a merge writes chunks[k + 1] of the list being iterated.
\* len(merged_text) <= chunk_size * 1.2 is compared in tenths.
RECURSIVE PostProcessFrom(_, _, _, _)
PostProcessFrom(chunks, k, processed_chunks, cfg) ==
    IF k > Len(chunks) THEN processed_chunks
    ELSE LET c == chunks[k]
             merged_text == c.text \o NLNL \o chunks[k + 1].text
         IN  IF /\ Len(c.text) < cfg.min_chunk_size
                /\ k < Len(chunks)
                /\ 10 * Len(merged_text) <= 12 * cfg.chunk_size
             THEN PostProcessFrom(
                      [chunks EXCEPT ![k + 1] =
                          Chunk(merged_text, MergedChunkIndex(c, chunks[k + 1]),
                                c.start_char, chunks[k + 1].end_char)],
                      k + 1, processed_chunks, cfg)
             ELSE PostProcessFrom(chunks, k + 1, Append(processed_chunks, c), cfg)

post_process_chunks(chunks, cfg) == PostProcessFrom(chunks, 1, <<>>, cfg)

\* the body of "for section in sections" of _semantic_chunking_with_metadata,
\* on the loop's state st; closed lists, for every chunk the loop finalized,
\* current_chunk as it stood and the overlap_text taken from it
SemanticStep(st, section, cfg) ==
    LET section_text == Strip(section.text)
        current_chunk == st.current_chunk
    IN  IF section_text = <<>> THEN st
        ELSE IF Len(current_chunk) + Len(section_text) > cfg.chunk_size
                /\ current_chunk # <<>>
        THEN LET overlap_text == get_semantic_overlap(current_chunk, cfg)
             IN  [chunks |-> Append(st.chunks,
                        Chunk(Strip(current_chunk), st.chunk_index, st.current_start,
                              st.current_start + Len(current_chunk))),
                  closed |-> Append(st.closed, [current_chunk |-> current_chunk,
                                                overlap_text |-> overlap_text]),
                  chunk_index |-> st.chunk_index + 1,
                  current_chunk |-> IF overlap_text # <<>>
                                    THEN overlap_text \o NLNL \o section_text
                                    ELSE section_text,
                  current_start |-> IF overlap_text # <<>>
                                    THEN section.start - Len(overlap_text)
                                    ELSE section.start]
        ELSE IF current_chunk # <<>>
        THEN [st EXCEPT !.current_chunk = current_chunk \o NLNL \o section_text]
        ELSE [st EXCEPT !.current_chunk = section_text,
                        !.current_start = section.start]

RECURSIVE SemanticLoop(_, _, _)
SemanticLoop(st, sections, cfg) ==
    IF sections = <<>> THEN st
    ELSE SemanticLoop(SemanticStep(st, Head(sections), cfg), Tail(sections), cfg)

\* the loop of _semantic_chunking_with_metadata over the sections of text
SemanticSections(text, cfg) ==
    SemanticLoop([chunks |-> <<>>, closed |-> <<>>, chunk_index |-> 0,
                  current_chunk |-> <<>>, current_start |-> 0],
                 identify_sections(text), cfg)

\* the chunks of _semantic_chunking_with_metadata before post-processing
SemanticChunks(text, cfg) ==
    LET st == SemanticSections(text, cfg)
    IN  IF Strip(st.current_chunk) # <<>>
        THEN Append(st.chunks,
                 Chunk(Strip(st.current_chunk), st.chunk_index, st.current_start,
                       st.current_start + Len(st.current_chunk)))
        ELSE st.chunks

semantic_chunking_with_metadata(text, cfg) ==
    post_process_chunks(SemanticChunks(text, cfg), cfg)

\* _find_sentence_boundary: the loop "for i in range(search_start,
\* search_end)" from i on (i is 0-based as in the code)
RECURSIVE BoundaryLoop(_, _, _, _, _)
BoundaryLoop(text, i, search_end, target_end, best_end) ==
    IF i >= search_end THEN best_end
    ELSE BoundaryLoop(text, i + 1, search_end, target_end,
             IF /\ i < Len(text)
                /\ IsPunct(text[i + 1])
                /\ i + 1 < Len(text)
                /\ IsSpace(text[i + 2]) \/ IsUpper(text[i + 2])
                /\ Abs(i - target_end) < Abs(best_end - target_end)
             THEN i + 1 ELSE best_end)

find_sentence_boundary(text, start, target_end, cfg) ==
    BoundaryLoop(text,
                 Max(start + (cfg.chunk_size \div 2), target_end - BoundaryLookBack),
                 Min(Len(text), target_end + BoundaryLookAhead),
                 target_end, target_end)

\* _sliding_window_chunking_with_metadata: the loop "while start <
\* text_length" from the given start and chunk_index on
\* end of the window that starts at start: "end = start + self.chunk_size",
\* moved by _find_sentence_boundary when it lies before the end of the text
WindowEnd(text, start, cfg) ==
    LET target == start + cfg.chunk_size
    IN  IF target < Len(text)
        THEN find_sentence_boundary(text, start, target, cfg)
        ELSE target

\* "Move start position with overlap": the start of the next window
NextWindowStart(text, start, cfg) ==
    LET end == WindowEnd(text, start, cfg)
        overlap_start == Max(start + cfg.chunk_size - cfg.chunk_overlap, end)
    IN  IF overlap_start > start THEN overlap_start ELSE end

RECURSIVE SlidingLoop(_, _, _, _, _)
SlidingLoop(text, start, chunk_index, chunks, cfg) ==
    IF start >= Len(text) THEN chunks
    ELSE LET end == WindowEnd(text, start, cfg)
             chunk_text == Strip(Slice(text, start, end))
             kept == chunk_text # <<>> /\ Len(chunk_text) >= cfg.min_chunk_size
         IN  SlidingLoop(text,
                 NextWindowStart(text, start, cfg),
                 IF kept THEN chunk_index + 1 ELSE chunk_index,
                 IF kept THEN Append(chunks, Chunk(chunk_text, chunk_index, start, end))
                 ELSE chunks,
                 cfg)

\* the windows of that loop, kept or not: start and end of each pass
RECURSIVE SlidingWindows(_, _, _)
SlidingWindows(text, start, cfg) ==
    IF start >= Len(text) THEN <<>>
    ELSE <<[start |-> start, end |-> WindowEnd(text, start, cfg)]>>
             \o SlidingWindows(text, NextWindowStart(text, start, cfg), cfg)

sliding_window_chunking_with_metadata(text, cfg) ==
    SlidingLoop(text, 0, 0, <<>>, cfg)

\* ---- _clean_text -----------------------------------------------------------
\* a character outside [\w\s.!?,;:\-()\[\]{}"'/]
IsSpecial(ch) == ch \in {"#", "@"}

\* re.sub(r"\s+", " ", text)
RECURSIVE CollapseWhitespace(_)
CollapseWhitespace(text) ==
    IF text = <<>> THEN <<>>
    ELSE IF IsSpace(Head(text)) THEN <<" ">> \o CollapseWhitespace(LStrip(text))
    ELSE <<Head(text)>> \o CollapseWhitespace(Tail(text))

\* re.sub(special characters, "", text)
RemoveSpecial(text) == SelectSeq(text, LAMBDA ch : ~IsSpecial(ch))

\* the last position in i..j that holds a newline, or 0
RECURSIVE LastNewline(_, _, _)
LastNewline(text, i, j) ==
    IF j < i THEN 0
    ELSE IF text[j] = "\n" THEN j ELSE LastNewline(text, i, j - 1)

\* re.sub(r"\n\s*\n", "\n\n", text) from position i on
RECURSIVE NormalizeBreaks(_, _)
NormalizeBreaks(text, i) ==
    IF i > Len(text) THEN <<>>
    ELSE LET l == LastNewline(text, i + 1, SpaceRunEnd(text, i + 1) - 1)
         IN  IF text[i] = "\n" /\ l # 0
             THEN NLNL \o NormalizeBreaks(text, l + 1)
             ELSE <<text[i]>> \o NormalizeBreaks(text, i + 1)

clean_text(text) ==
    Strip(NormalizeBreaks(RemoveSpecial(CollapseWhitespace(text)), 1))

\* chunk_text_with_metadata(text, preserve_structure): the cleaned text and
\* the chunks returned
chunk_text_with_metadata(text, preserve_structure, cfg) ==
    IF Strip(text) = <<>> THEN [cleaned_text |-> <<>>, chunks |-> <<>>]
    ELSE LET cleaned_text == clean_text(text)
         IN  [cleaned_text |-> cleaned_text,
              chunks |-> IF preserve_structure
                         THEN semantic_chunking_with_metadata(cleaned_text, cfg)
                         ELSE sliding_window_chunking_with_metadata(cleaned_text, cfg)]

\* ---- the inputs of the model ---------------------------------------------
\* text * n
RepeatText(text, n) ==
    IF n <= 0 THEN <<>>
    ELSE [k \in 1..(n * Len(text)) |-> text[((k - 1) % Len(text)) + 1]]

\* one paragraph of five short sentences, as long as the larger window
ShortSentences == RepeatText(<<"a", "b", ".", " ">>, 5)

\* sections: one letter, two short sentences, a long paragraph of the size of
\* the larger window, a paragraph of medium length, an empty one, a
\* paragraph of many short sentences, and one with a special character and
\* a run of whitespace
SectionPool ==
    {<<"a">>, <<"b", ".", " ", "c">>, Rep("d", 20), Rep("e", 8), <<>>,
     ShortSentences, <<"f", "#", " ", "\t", "g">>}

RECURSIVE JoinSections(_)
JoinSections(sections) ==
    IF sections = <<>> THEN <<>>
    ELSE IF Len(sections) = 1 THEN Head(sections)
    ELSE Head(sections) \o NLNL \o JoinSections(Tail(sections))

\* a paragraph shorter than min_chunk_size and chunk_overlap, then one as
\* long as the largest window
ShortThenLong == JoinSections(<<<<"a">>, Rep("d", 30)>>)

ChunkTexts ==
    {JoinSections(ss) : ss \in SeqsUpTo(SectionPool, MaxSections)} \cup {ShortThenLong}

\* TextProcessor(chunk_size, chunk_overlap, min_chunk_size), scaled down
\* from the defaults 1000, 200, 100
ChunkConfigs ==
    {[chunk_size |-> cs, chunk_overlap |-> ov, min_chunk_size |-> mn] :
        cs \in {10, 20}, ov \in {0, 3}, mn \in {2, 5}}
    \cup {[chunk_size |-> 30, chunk_overlap |-> 3, min_chunk_size |-> 2]}

\* api tells whether the call went through chunk_text_with_metadata, which
\* cleans the text first; cleaned_text is then the text that was chunked;
\* closed is what _semantic_chunking_with_metadata finalized in its loop,
\* windows the passes of the loop of _sliding_window_chunking_with_metadata
NewChunker(text, cfg) ==
    [pc |-> "idle", text |-> text, cfg |-> cfg, mode |-> "none", chunks |-> <<>>,
     api |-> FALSE, cleaned_text |-> <<>>, closed |-> <<>>, windows |-> <<>>]

ChunkerInit == chunker \in {NewChunker(t, cfg) : t \in ChunkTexts, cfg \in ChunkConfigs}

\* _semantic_chunking_with_metadata(text) returns
SemanticChunking ==
    /\ chunker.pc = "idle"
    /\ chunker' = [chunker EXCEPT
           !.pc = "done", !.mode = "semantic",
           !.closed = SemanticSections(chunker.text, chunker.cfg).closed,
           !.chunks = semantic_chunking_with_metadata(chunker.text, chunker.cfg)]
    /\ UNCHANGED ingestVars
    /\ UNCHANGED <<fetch, embed, pdf>>

\* _sliding_window_chunking_with_metadata(text) returns
SlidingWindowChunking ==
    /\ chunker.pc = "idle"
    /\ chunker' = [chunker EXCEPT
           !.pc = "done", !.mode = "sliding",
           !.windows = SlidingWindows(chunker.text, 0, chunker.cfg),
           !.chunks = sliding_window_chunking_with_metadata(chunker.text, chunker.cfg)]
    /\ UNCHANGED ingestVars
    /\ UNCHANGED <<fetch, embed, pdf>>

\* chunk_text_with_metadata(text, preserve_structure) returns
ChunkTextWithMetadata ==
    /\ chunker.pc = "idle"
    /\ \E preserve_structure \in BOOLEAN :
         LET r == chunk_text_with_metadata(chunker.text, preserve_structure,
                                           chunker.cfg)
         IN  chunker' = [chunker EXCEPT
                 !.pc = "done", !.api = TRUE,
                 !.mode = IF preserve_structure THEN "semantic" ELSE "sliding",
                 !.cleaned_text = r.cleaned_text,
                 !.chunks = r.chunks]
    /\ UNCHANGED ingestVars
    /\ UNCHANGED <<fetch, embed, pdf>>

ChunkerNext == SemanticChunking \/ SlidingWindowChunking \/ ChunkTextWithMetadata

InitChunk == ChunkerInit /\ IngestIdle /\ FetchIdle /\ EmbedIdle /\ PdfIdle

SpecChunk == InitChunk /\ [][ChunkerNext]_vars

(***************************************************************************)
(* Properties of the chunkers                                              *)
(***************************************************************************)
\* C8 as stated: the chunks returned by either chunker carry the
\* chunk_index values 0, 1, ..., n-1 in output order.
C8_Original ==
    chunker.pc = "done" =>
        \A k \in 1..Len(chunker.chunks) : chunker.chunks[k].chunk_index = k - 1

\* the positions (0-based) of the cleaned text that lie in the window of a
\* returned chunk, [start_char, end_char)
Covered(i) ==
    \E k \in 1..Len(chunker.chunks) :
        chunker.chunks[k].start_char <= i /\ i < chunker.chunks[k].end_char

\* positions a..b of the cleaned text appear in no returned chunk
Uncovered(a, b) == a <= b /\ \A i \in a..b : ~Covered(i)

\* C11 as stated: in both modes the chunks returned for a text that is not
\* empty cover the cleaned text; a stretch of the cleaned text that is in no
\* returned chunk is at most chunk_overlap characters long.
C11_Original ==
    (chunker.pc = "done" /\ chunker.api) =>
        \A a, b \in 0..(Len(chunker.cleaned_text) - 1) :
            Uncovered(a, b) => b - a + 1 <= chunker.cfg.chunk_overlap

\* C12 as stated: in its default structure-preserving mode chunk_text
\* returns at least two chunks for a single paragraph of many short
\* sentences that is at least twice chunk_size long.
SingleParagraph(text) == Len(SplitParagraphs(text, 1, 1)) = 1
ManySentences(text) == Len(Sentences(text)) >= 3

C12_Original ==
    (/\ chunker.pc = "done" /\ chunker.api /\ chunker.mode = "semantic"
     /\ SingleParagraph(chunker.text)
     /\ ManySentences(chunker.text)
     /\ Len(chunker.text) >= 2 * chunker.cfg.chunk_size) =>
        Len(chunker.chunks) >= 2


(***************************************************************************)
(* PART 5.  TextProcessor.estimate_tokens and truncate_to_tokens           *)
(***************************************************************************)
\* "len(truncated) > 100": the loop of truncate_to_tokens stops at this length
MinTruncatedLength == 100

\* "len(truncated) - 200": how far back the loop looks for a sentence end
TruncateLookBack == 200

\* the largest repeat count of the texts below
MaxRepeat == 100

\* the whitespace character of a text that is nearest to its middle
MiddleSpace(text) ==
    LET spaces == {k \in 1..Len(text) : IsSpace(text[k])}
    IN  CHOOSE k \in spaces :
            \A j \in spaces : Abs(2 * k - Len(text)) <= Abs(2 * j - Len(text))

\* text.split(): the words of text, its maximal runs without whitespace,
\* as the words before a whitespace character and the words after it
RECURSIVE SplitWords(_)
SplitWords(text) ==
    IF text = <<>> THEN <<>>
    ELSE IF \A k \in 1..Len(text) : ~IsSpace(text[k]) THEN <<text>>
    ELSE SplitWords(SubSeq(text, 1, MiddleSpace(text) - 1))
             \o SplitWords(SubSeq(text, MiddleSpace(text) + 1, Len(text)))

\* " ".join(words), as the join of each half of the list
RECURSIVE JoinWords(_)
JoinWords(words) ==
    IF words = <<>> THEN <<>>
    ELSE IF Len(words) = 1 THEN Head(words)
    ELSE LET h == Len(words) \div 2
         IN  JoinWords(SubSeq(words, 1, h)) \o <<" ">>
                 \o JoinWords(SubSeq(words, h + 1, Len(words)))

\* round(x) for x = n / 20, n >= 0: to the nearest integer, a half to the
\* even one
RoundTwentieths(n) ==
    LET q == n \div 20
        r == n % 20
    IN  IF r > 10 \/ (r = 10 /\ q % 2 = 1) THEN q + 1 ELSE q

\* int(x) for x = n / 20, n >= 0: the fraction is cut off
IntTwentieths(n) == n \div 20

\* the estimate len(text) // 4
estimate_by_division(text) == Len(text) \div 4

\* int(words * 1.3 + chars * 0.25), then max(words, estimated_tokens);
\* words * 1.3 + chars * 0.25 is (26 * words + 5 * chars) / 20
estimate_tokens(text) ==
    IF text = <<>> THEN 0
    ELSE LET words == Len(SplitWords(text))
             chars == Len(text)
         IN  Max(words, IntTwentieths(26 * words + 5 * chars))

\* one pass of the body of the while loop, up to the test of the length:
\* cut after the last sentence end at index search_start + 1 or later, or
\* drop the last word
TruncatePass(truncated) ==
    LET search_start == Max(0, Len(truncated) - TruncateLookBack)
        boundaries == {p \in (search_start + 2)..Len(truncated) : IsPunct(truncated[p])}
    IN  IF boundaries # {}
        THEN SubSeq(truncated, 1, CHOOSE p \in boundaries : \A q \in boundaries : q <= p)
        ELSE LET words == SplitWords(truncated)
             IN  JoinWords(SubSeq(words, 1, Len(words) - 1))

\* the condition of the while loop
TruncateMore(truncated, max_tokens) ==
    /\ estimate_tokens(truncated) > max_tokens
    /\ Len(truncated) > MinTruncatedLength

\* "len(text) <= estimated_chars" with estimated_chars = max_tokens * 3.5
FitsEstimate(text, max_tokens) == 2 * Len(text) <= 7 * max_tokens

\* the text of test_truncate_to_tokens, before "* 20"
TestSentence ==
    <<"T", "h", "i", "s", " ", "i", "s", " ", "a", " ", "l", "o", "n", "g",
      " ", "t", "e", "x", "t", " ", "t", "h", "a", "t", " ", "s", "h", "o",
      "u", "l", "d", " ", "b", "e", " ", "t", "r", "u", "n", "c", "a", "t",
      "e", "d", ".", " ">>

\* words of one letter, sentences of one letter, words of four letters, each
\* repeated, the text of the repository's test, and the empty text
TruncateTexts ==
    {RepeatText(unit, n) :
        unit \in {<<"a", " ">>, <<"a", ".", " ">>, <<"a", "b", "c", "d", " ">>},
        n \in {MaxRepeat \div 4, MaxRepeat}}
    \cup {RepeatText(TestSentence, 20), <<>>}

TokenBudgets == {10, 40, 50, 100}

NewTruncate(text, max_tokens) ==
    [pc |-> "idle", text |-> text, max_tokens |-> max_tokens, truncated |-> <<>>]

TruncateInit ==
    chunker \in {NewTruncate(t, m) : t \in TruncateTexts, m \in TokenBudgets}

\* truncate_to_tokens(text, max_tokens) up to the while loop
TruncateBegin ==
    /\ chunker.pc = "idle"
    /\ chunker' =
         IF chunker.text = <<>> \/ FitsEstimate(chunker.text, chunker.max_tokens)
         THEN [chunker EXCEPT !.pc = "returned", !.truncated = chunker.text]
         ELSE [chunker EXCEPT
                  !.pc = "while",
                  !.truncated = SubSeq(chunker.text, 1, (7 * chunker.max_tokens) \div 2)]
    /\ UNCHANGED ingestVars
    /\ UNCHANGED <<fetch, embed, pdf>>

\* the test of the while loop and, if it holds, one pass of its body
TruncateWhile ==
    /\ chunker.pc = "while"
    /\ chunker' =
         IF TruncateMore(chunker.truncated, chunker.max_tokens)
         THEN LET truncated == TruncatePass(chunker.truncated)
              IN  [chunker EXCEPT
                      !.truncated = truncated,
                      !.pc = IF Len(truncated) <= MinTruncatedLength
                             THEN "returned" ELSE "while"]
         ELSE [chunker EXCEPT !.pc = "returned"]
    /\ UNCHANGED ingestVars
    /\ UNCHANGED <<fetch, embed, pdf>>

TruncateNext == TruncateBegin \/ TruncateWhile

InitTruncate == TruncateInit /\ IngestIdle /\ FetchIdle /\ EmbedIdle /\ PdfIdle

SpecTruncate == InitTruncate /\ [][TruncateNext]_vars

\* C23 as stated: truncate_to_tokens terminates for every text and every
\* max_tokens >= 1, because each pass of its loop strictly shortens the
\* text: whenever the loop is about to make a pass, the text after the pass
\* is shorter than before it.
C23_Original ==
    (chunker.pc = "while" /\ TruncateMore(chunker.truncated, chunker.max_tokens))
        => Len(TruncatePass(chunker.truncated)) < Len(chunker.truncated)

\* C18 as stated: for every text longer than max_tokens x 3.5 characters,
\* truncate_to_tokens returns a text strictly shorter than the input whose
\* estimate_tokens value is at most max_tokens.
C18_Original ==
    (chunker.pc = "returned" /\ ~FitsEstimate(chunker.text, chunker.max_tokens)) =>
        /\ Len(chunker.truncated) < Len(chunker.text)
        /\ estimate_tokens(chunker.truncated) <= chunker.max_tokens


(***************************************************************************)
(* PART 6.  TextProcessor._calculate_chunk_quality                         *)
(*                                                                         *)
(* Scores are counted in tenths: the base score 0.5 is 5, the bounds 0.0   *)
(* and 1.0 are 0 and 10.  Every bonus and penalty of the code is a whole   *)
(* number of tenths.                                                       *)
(***************************************************************************)
\* str.lower(), on the letters of the texts below
Lower(text) == [k \in 1..Len(text) |-> IF text[k] = "A" THEN "a" ELSE text[k]]

\* text.strip().endswith((".", "!", "?"))
EndsWithSentence(text) ==
    LET t == Strip(text) IN t # <<>> /\ IsPunct(t[Len(t)])

\* "len(set(words)) < len(words) * 0.3" for words = text.lower().split()
Repetitive(text) ==
    LET words == SplitWords(Lower(text))
        unique == {words[k] : k \in 1..Len(words)}
    IN  10 * Cardinality(unique) < 3 * Len(words)

\* the score before "max(0.0, min(1.0, score))"
QualityBeforeClamp(text, sentence_count, has_title, cfg) ==
    LET length == Len(text)
        by_length == IF cfg.min_chunk_size <= length /\ length <= cfg.chunk_size THEN 2
                     ELSE IF 10 * length > 12 * cfg.chunk_size THEN -1
                     ELSE 0
        by_sentences == IF sentence_count >= 2 THEN 2
                        ELSE IF sentence_count = 0 THEN -2
                        ELSE 0
    IN  5 + by_length + by_sentences
          + (IF has_title THEN 1 ELSE 0)
          + (IF EndsWithSentence(text) THEN 1 ELSE 0)
          - (IF Repetitive(text) THEN 2 ELSE 0)

\* max(0.0, min(1.0, score))
Unclamped(score) == score
Clamp(score) == Max(0, Min(10, score))

calculate_chunk_quality(text, sentence_count, has_title, cfg) ==
    Clamp(QualityBeforeClamp(text, sentence_count, has_title, cfg))

\* the empty text, one word, two sentences, one word four times in two
\* cases, a repetitive text of complete sentences, six words that end a
\* sentence, a long run of one letter, and a long repetitive text
QualityTexts ==
    {<<>>, <<"a">>, <<"b", ".", " ", "c">>,
     <<"A", " ", "a", " ", "a", " ", "a">>,
     RepeatText(<<"a", "b", ".", " ">>, 4),
     <<"a", " ", "b", " ", "c", ".">>,
     Rep("d", 30), RepeatText(<<"a", " ">>, 13)}

SentenceCounts == {0, 1, 2, 3}

NewQuality(text, sentence_count, has_title, cfg) ==
    [pc |-> "idle", text |-> text, sentence_count |-> sentence_count,
     has_title |-> has_title, cfg |-> cfg, quality_score |-> 0]

QualityInit ==
    chunker \in {NewQuality(t, n, h, cfg) :
                    t \in QualityTexts, n \in SentenceCounts,
                    h \in BOOLEAN, cfg \in ChunkConfigs}

\* _calculate_chunk_quality(text, sentence_count, has_title) returns
CalculateChunkQuality ==
    /\ chunker.pc = "idle"
    /\ chunker' = [chunker EXCEPT
           !.pc = "done",
           !.quality_score = calculate_chunk_quality(chunker.text, chunker.sentence_count,
                                                     chunker.has_title, chunker.cfg)]
    /\ UNCHANGED ingestVars
    /\ UNCHANGED <<fetch, embed, pdf>>

QualityNext == CalculateChunkQuality

InitQuality == QualityInit /\ IngestIdle /\ FetchIdle /\ EmbedIdle /\ PdfIdle

SpecQuality == InitQuality /\ [][QualityNext]_vars

\* C20: for every chunk text, sentence count, title flag and configuration
\* the quality score returned lies in the closed interval [0, 1], that is
\* between 0 and 10 tenths, whatever bonuses and penalties apply.
C20_QualityInRange ==
    chunker.pc = "done" => (0 <= chunker.quality_score /\ chunker.quality_score <= 10)

\* every bonus applies, the sum is 1.1, and the score returned is 1.0
C20_Witness ==
    /\ chunker.pc = "done"
    /\ QualityBeforeClamp(chunker.text, chunker.sentence_count,
                          chunker.has_title, chunker.cfg) = 11
    /\ chunker.quality_score = 10


(***************************************************************************)
(* PART 7.  TextProcessor.estimate_tokens on its own                       *)
(***************************************************************************)
\* the longest of the short texts below
MaxEstimateLen == 4

\* every text of up to MaxEstimateLen characters over a letter, a blank and
\* a full stop, and the longer texts of PART 5
EstimateTexts == SeqsUpTo({"a", " ", "."}, MaxEstimateLen) \cup TruncateTexts

NewEstimate(text) == [pc |-> "idle", text |-> text, tokens |-> 0]

EstimateInit == chunker \in {NewEstimate(t) : t \in EstimateTexts}

\* estimate_tokens(text) returns
EstimateTokens ==
    /\ chunker.pc = "idle"
    /\ chunker' = [chunker EXCEPT !.pc = "done",
                                  !.tokens = estimate_tokens(chunker.text)]
    /\ UNCHANGED ingestVars
    /\ UNCHANGED <<fetch, embed, pdf>>

EstimateNext == EstimateTokens

InitEstimate == EstimateInit /\ IngestIdle /\ FetchIdle /\ EmbedIdle /\ PdfIdle

SpecEstimate == InitEstimate /\ [][EstimateNext]_vars

\* the number of whitespace-separated words of a text, counted as the
\* starts of words
WordCount(text) ==
    Cardinality({k \in 1..Len(text) :
                    ~IsSpace(text[k]) /\ (k = 1 \/ IsSpace(text[k - 1]))})

\* C21: for every text, estimate_tokens(text) is greater than or equal to
\* the number of whitespace-separated words of the text.
C21_AtLeastWordCount ==
    chunker.pc = "done" => chunker.tokens >= WordCount(chunker.text)

\* a text of several words whose estimate is above its word count, and none
\* below
C21_Witness ==
    /\ chunker.pc = "done"
    /\ WordCount(chunker.text) >= 2
    /\ chunker.tokens > WordCount(chunker.text)

\* C28, amended: for every text with w words and c characters,
\* estimate_tokens returns max(w, floor(1.3 x w + 0.25 x c)), the fraction
\* of the sum cut off, not rounded to the nearest integer, and 0 for the
\* empty text.
C28_EstimateFloors ==
    chunker.pc = "done" =>
        LET w == WordCount(chunker.text)
            c == Len(chunker.text)
        IN  /\ chunker.text = <<>> => chunker.tokens = 0
            /\ chunker.tokens = Max(w, (26 * w + 5 * c) \div 20)
            /\ 20 * chunker.tokens <= Max(20 * w, 26 * w + 5 * c)
            /\ Max(20 * w, 26 * w + 5 * c) < 20 * (chunker.tokens + 1)

\* a text whose sum has a fraction above one half: the estimate is the
\* integer below the sum
C28_Witness ==
    /\ chunker.pc = "done"
    /\ (26 * WordCount(chunker.text) + 5 * Len(chunker.text)) % 20 > 10
    /\ 20 * chunker.tokens < 26 * WordCount(chunker.text) + 5 * Len(chunker.text)

\* C28 as stated: estimate_tokens returns max(w, round(1.3 x w + 0.25 x c))
\* with the sum rounded to the nearest integer, and 0 for the empty text.
C28_Original ==
    chunker.pc = "done" =>
        LET w == WordCount(chunker.text)
            c == Len(chunker.text)
        IN  chunker.tokens = (IF chunker.text = <<>> THEN 0
                              ELSE Max(w, RoundTwentieths(26 * w + 5 * c)))


(***************************************************************************)
(* Properties of the overlap of structure-preserving chunking              *)
(***************************************************************************)
\* position k of text (1-based) is where a sentence begins: the start of
\* the text, or after whitespace that follows a sentence terminator or
\* holds a paragraph break
BeginsSentence(text, k) ==
    \/ k = 1
    \/ /\ k <= Len(text)
       /\ ~IsSpace(text[k])
       /\ IsSpace(text[k - 1])
       /\ \E j \in 1..(k - 1) :
            /\ \A i \in (j + 1)..(k - 1) : IsSpace(text[i])
            /\ \/ IsPunct(text[j])
               \/ (text[j] = "\n" /\ j + 1 <= k - 1 /\ text[j + 1] = "\n")

\* overlap is the end of text
IsSuffix(overlap, text) ==
    /\ Len(overlap) <= Len(text)
    /\ overlap = SubSeq(text, Len(text) - Len(overlap) + 1, Len(text))

\* C25 as stated: whenever structure-preserving chunking closes a chunk, the
\* overlap text seeded into the next chunk is a suffix of the closed chunk
\* of at most chunk_overlap characters that starts at the beginning of a
\* sentence, never in the middle of a sentence or word, whether or not the
\* last chunk_overlap characters contain a sentence terminator.
C25_Original ==
    (chunker.pc = "done" /\ chunker.mode = "semantic" /\ ~chunker.api) =>
        \A k \in 1..Len(chunker.closed) :
            LET current_chunk == chunker.closed[k].current_chunk
                overlap_text == chunker.closed[k].overlap_text
            IN  overlap_text # <<>> =>
                    /\ IsSuffix(overlap_text, current_chunk)
                    /\ Len(overlap_text) <= chunker.cfg.chunk_overlap
                    /\ BeginsSentence(current_chunk,
                                      Len(current_chunk) - Len(overlap_text) + 1)


\* how many elements of the sequence seq equal x
CountOf(seq, x) == Cardinality({k \in 1..Len(seq) : seq[k] = x})

\* C29 as stated: no chunk returned by structure-preserving chunking
\* contains the same section of the source text twice: a section's text is
\* a paragraph of a chunk at most as often as it is a section of the source,
\* also when _post_process_chunks merged a short chunk into a successor that
\* was seeded with overlap from it.
C29_Original ==
    (chunker.pc = "done" /\ chunker.mode = "semantic" /\ ~chunker.api) =>
        LET sections == identify_sections(chunker.text)
            texts == [k \in 1..Len(sections) |-> sections[k].text]
        IN  \A c \in 1..Len(chunker.chunks) : \A k \in 1..Len(texts) :
                CountOf(SplitParagraphs(chunker.chunks[c].text, 1, 1), texts[k])
                    <= CountOf(texts, texts[k])


(***************************************************************************)
(* Properties of the windows of fixed-window chunking                      *)
(***************************************************************************)
\* C26 as stated: in fixed-window mode every window after the first starts
\* exactly chunk_size - chunk_overlap characters after the start of the
\* previous window, so that consecutive windows share chunk_overlap
\* characters.
C26_Original ==
    (chunker.pc = "done" /\ chunker.mode = "sliding" /\ ~chunker.api) =>
        \A k \in 1..(Len(chunker.windows) - 1) :
            chunker.windows[k + 1].start =
                chunker.windows[k].start
                    + chunker.cfg.chunk_size - chunker.cfg.chunk_overlap

\* the indices (0-based) in the search range of the window that starts at
\* start where a sentence terminator is followed by whitespace or an
\* uppercase letter
Terminators(text, start, cfg) ==
    LET target_end == start + cfg.chunk_size
        search_start == Max(start + (cfg.chunk_size \div 2), target_end - BoundaryLookBack)
        search_end == Min(Len(text), target_end + BoundaryLookAhead)
    IN  {i \in search_start..(search_end - 1) :
            /\ i + 1 < Len(text)
            /\ IsPunct(text[i + 1])
            /\ IsSpace(text[i + 2]) \/ IsUpper(text[i + 2])}

\* C27 as stated: in fixed-window mode, when a window's computed end lies
\* before the end of the text and a sentence terminator followed by
\* whitespace or an uppercase letter exists in the search range around that
\* end, the chunk is cut just after the nearest such terminator instead of
\* at the raw window end.
C27_Original ==
    (chunker.pc = "done" /\ chunker.mode = "sliding" /\ ~chunker.api) =>
        \A k \in 1..Len(chunker.windows) :
            LET w == chunker.windows[k]
                target_end == w.start + chunker.cfg.chunk_size
                found == Terminators(chunker.text, w.start, chunker.cfg)
            IN  (target_end < Len(chunker.text) /\ found # {}) =>
                    \E i \in found :
                        /\ w.end = i + 1
                        /\ \A j \in found :
                               Abs(i - target_end) <= Abs(j - target_end)


(***************************************************************************)
(* PART 8.  PDFParser.extract_from_bytes and its temporary file            *)
(***************************************************************************)
\* the pages of the largest PDF
MaxPages == 3

\* what page.extract_text() gives for a page: text that is left after
\* cleaning, nothing (or only artifacts and blanks), or an exception
PageOutcomes == {"text", "blank", "raises"}

\* opens: whether pdfplumber.open accepts the bytes; tmp_file: the file made
\* by NamedTemporaryFile(suffix=".pdf", delete=False), "none" before it is
\* made, then "exists" or "removed"; page: the pages the loop has passed;
\* text_content: the numbers of the pages whose text was appended
NewPdf(opens, pages) ==
    [pc |-> "idle", opens |-> opens, pages |-> pages, tmp_file |-> "none",
     page |-> 0, text_content |-> <<>>, error |-> NoError]

PdfInit ==
    pdf \in {NewPdf(opens, pages) :
                opens \in BOOLEAN, pages \in SeqsUpTo(PageOutcomes, MaxPages)}

\* the handler of extract_from_bytes: any exception leaves as
\* DocumentIngestionError("Failed to extract text from PDF bytes: ...");
\* nothing is done to the temporary file
PdfRaised(p, kind) == [p EXCEPT !.pc = "raised", !.error = DIE(kind)]

\* extract_from_bytes up to the call of _extract_text_from_file: the
\* temporary file is made, written and flushed
ExtractFromBytes ==
    /\ pdf.pc = "idle"
    /\ pdf' = [pdf EXCEPT !.pc = "open", !.tmp_file = "exists"]
    /\ UNCHANGED ingestVars
    /\ UNCHANGED <<fetch, embed, chunker>>

\* pdfplumber.open(file_path) returns or raises
PdfplumberOpen ==
    /\ pdf.pc = "open"
    /\ pdf' = IF pdf.opens THEN [pdf EXCEPT !.pc = "pages"]
              ELSE PdfRaised(pdf, "pdf_bytes_failed")
    /\ UNCHANGED ingestVars
    /\ UNCHANGED <<fetch, embed, chunker>>

\* one pass of "for page_num, page in enumerate(pdf.pages)": an exception of
\* the page is caught and the loop goes on
ExtractPage ==
    /\ pdf.pc = "pages"
    /\ pdf.page < Len(pdf.pages)
    /\ pdf' = [pdf EXCEPT
           !.page = @ + 1,
           !.text_content = IF pdf.pages[pdf.page + 1] = "text"
                            THEN Append(@, pdf.page + 1) ELSE @]
    /\ UNCHANGED ingestVars
    /\ UNCHANGED <<fetch, embed, chunker>>

\* after the loop: "if not text_content: raise", else the text is returned
\* to extract_from_bytes, which unlinks the temporary file and returns
PagesDone ==
    /\ pdf.pc = "pages"
    /\ pdf.page = Len(pdf.pages)
    /\ pdf' = IF pdf.text_content = <<>>
              THEN PdfRaised(pdf, "pdf_bytes_failed")
              ELSE [pdf EXCEPT !.pc = "returned", !.tmp_file = "removed"]
    /\ UNCHANGED ingestVars
    /\ UNCHANGED <<fetch, embed, chunker>>

PdfNext == ExtractFromBytes \/ PdfplumberOpen \/ ExtractPage \/ PagesDone

InitPdf == PdfInit /\ IngestIdle /\ FetchIdle /\ EmbedIdle /\ ChunkerIdle

SpecPdf == InitPdf /\ [][PdfNext]_vars

\* C30 as stated: extract_from_bytes removes the temporary file it creates
\* on every exit path: after the call has returned or raised, also when
\* page extraction raises or no page yields text, the file no longer exists.
C30_Original ==
    pdf.pc \in {"returned", "raised"} => pdf.tmp_file # "exists"

====
